---- MODULE Spec2Model ----
(***************************************************************************)
(* Model of the MANUS proxy backend: the credential vault                  *)
(* (server/crypto.ts), the account/task repository (server/db.ts), the     *)
(* account router (server/routers/account.ts) and the task router          *)
(* (server/routers/task.ts, kept as src/unnamed/part_001).                 *)
(*                                                                         *)
(* Every tRPC handler is one action.  The remote MANUS API is the          *)
(* environment: each remote call either returns a response drawn from      *)
(* Responses or fails with a transport error.  The variable last records   *)
(* the call that has just completed: its input, the remote calls it        *)
(* issued, what the remote answered and what the handler returned; Return  *)
(* hands the result to the caller and leaves the server idle.  Calls do    *)
(* not overlap, and the database is connected.                             *)
(* Message timestamps (Date.now()) and the createdAt/updatedAt columns are *)
(* not part of the model.  The tables hold what the handlers write: the    *)
(* enum type of the tasks.status column is not enforced.                   *)
(***************************************************************************)
EXTENDS Integers, Sequences, FiniteSets, TLC

VARIABLES accounts, tasks, nextAccountId, nextTaskId, last, secret, vault, inflight,
          database

vars == <<accounts, tasks, nextAccountId, nextTaskId, last, secret, vault, inflight,
          database>>

(* ------------------------------ bounds -------------------------------- *)

\* Number of account rows ever inserted (autoincrement ids 1..MaxAccounts).
MaxAccounts == 2

\* Number of task rows ever inserted (autoincrement ids 1..MaxTasks).
MaxTasks == 2

\* Longest conversationHistory a continue may produce.
MaxHist == 4

\* Largest creditUsage a continue may accumulate.
MaxCredit == 15

\* Number of calls and restarts a behaviour makes.
MaxCalls == 4

(* --------------------------- small domains ---------------------------- *)

Users == {1, 2}

AccountIds == 1..MaxAccounts

TaskIds == 1..MaxTasks

\* Ids a caller may name: every id that can exist plus one that never does.
AccountArgs == 1..(MaxAccounts + 1)

TaskArgs == 1..(MaxTasks + 1)

\* The schema's default title, the placeholder task.get looks for.
UntitledTask == <<"U", "n", "t", "i", "t", "l", "e", "d", " ", "T", "a", "s", "k">>

\* Prompts are character sequences; <<>> is the empty string.
Prompts == {<<>>, <<"h", "i">>}

\* API keys a caller may submit, as sequences of code units; <<>> is the
\* empty string.
ApiKeyInputs == {<<>>, <<"a", "e9">>}

\* Account names a caller may submit.
NameInputs == {"", "A"}

\* apiBaseUrl a caller may submit; "" is an omitted apiBaseUrl.
BaseUrlInputs == {"", "not-a-url"}

\* Nonces crypto.randomBytes returns to account.create.
Nonces == {0}

\* Absent row of a table.
NoRow == [absent |-> TRUE]

\* SQL NULL of a nullable string column (taskUrl, shareUrl, projectId).
NULL == "null"

(* ------------------------- server/crypto.ts --------------------------- *)

\* A string is a sequence of UTF-16 code units: "a" (U+0061), "e9" (U+00E9),
\* "hi" and "lo" (a high and a low surrogate; "hi" followed by "lo" is one
\* astral character), "fffd" (U+FFFD, the replacement character).
CodeUnits == {"a", "e9", "hi", "lo", "fffd"}

\* The cipher works on byte symbols 0..CipherMod-1.  A symbol stands for a
\* class of UTF-8 bytes: 0..7 single bytes, 8..11 continuation bytes, 12..13
\* lead bytes of two, 14 of three, 15 of four.
CipherMod == 16

\* Bytes of one well-formed character in UTF-8.
Utf8A == <<1>>

Utf8E9 == <<12, 9>>

Utf8Astral == <<15, 9, 8, 8>>

Utf8Fffd == <<14, 11, 10>>

\* cipher.update(plaintext, "utf8", ...): the UTF-8 bytes of the string s; a
\* surrogate that is not part of a pair is written as U+FFFD.
RECURSIVE utf8Encode(_)
utf8Encode(s) ==
    IF s = <<>> THEN <<>>
    ELSE IF Head(s) = "a" THEN Utf8A \o utf8Encode(Tail(s))
    ELSE IF Head(s) = "e9" THEN Utf8E9 \o utf8Encode(Tail(s))
    ELSE IF Head(s) = "hi" /\ Len(s) >= 2 /\ s[2] = "lo"
         THEN Utf8Astral \o utf8Encode(Tail(Tail(s)))
    ELSE Utf8Fffd \o utf8Encode(Tail(s))

\* b starts with the bytes p.
startsWith(b, p) == Len(b) >= Len(p) /\ SubSeq(b, 1, Len(p)) = p

\* b without its first n bytes.
drop(b, n) == SubSeq(b, n + 1, Len(b))

\* Mutant of utf8Decode: only single bytes are decoded.
RECURSIVE utf8DecodeSingleBytes(_)
utf8DecodeSingleBytes(b) ==
    IF b = <<>> THEN <<>>
    ELSE IF startsWith(b, Utf8A) THEN <<"a">> \o utf8DecodeSingleBytes(drop(b, 1))
    ELSE <<"fffd">> \o utf8DecodeSingleBytes(drop(b, 1))

\* decipher.update(..., "hex", "utf8"): the string the bytes b decode to; a
\* byte that starts no well-formed character decodes to U+FFFD.
RECURSIVE utf8Decode(_)
utf8Decode(b) ==
    IF b = <<>> THEN <<>>
    ELSE IF startsWith(b, Utf8A) THEN <<"a">> \o utf8Decode(drop(b, 1))
    ELSE IF startsWith(b, Utf8E9) THEN <<"e9">> \o utf8Decode(drop(b, 2))
    ELSE IF startsWith(b, Utf8Astral) THEN <<"hi", "lo">> \o utf8Decode(drop(b, 4))
    ELSE IF startsWith(b, Utf8Fffd) THEN <<"fffd">> \o utf8Decode(drop(b, 3))
    ELSE <<"fffd">> \o utf8Decode(drop(b, 1))

\* Values of ENV.cookieSecret; "" is an unset secret.
Secrets == {"", "prod"}

\* crypto.createHash("sha256").update(data).digest()
sha256(data) == IF data = "prod" THEN 2 ELSE 5

\* getKey(): the digest of the configured secret, or of the fallback.
getKey == sha256(IF secret # "" THEN secret ELSE "fallback-secret-key-for-dev")

\* Lengths of the nonce and of the tag in the blob, in symbols.
IV_LENGTH == 1

TAG_LENGTH == 1

\* Key stream symbol i of the counter-mode cipher under key k and nonce iv.
keyStream(k, iv, i) == (k + 3 * iv + i) % CipherMod

\* Authentication tag of (iv, ciphertext) under key k.
RECURSIVE tagSum(_, _)
tagSum(ct, i) ==
    IF i > Len(ct) THEN 0 ELSE ((2 * i + 1) * ct[i] + tagSum(ct, i + 1)) % CipherMod

authTag(k, iv, ct) == (k + 5 * iv + Len(ct) + tagSum(ct, 1)) % CipherMod

\* Mutant of encrypt: the nonce is left out of the blob and of the cipher.
encryptWithoutNonce(plaintext, iv) ==
    LET bytes == utf8Encode(plaintext)
        ct == [i \in 1..Len(bytes) |-> (bytes[i] + keyStream(getKey, 0, i)) % CipherMod]
    IN  <<0>> \o <<authTag(getKey, 0, ct)>> \o ct

\* encrypt(plaintext) with the nonce iv drawn by randomBytes: the blob is the
\* nonce, then the tag, then the ciphertext.
encrypt(plaintext, iv) ==
    LET bytes == utf8Encode(plaintext)
        ct == [i \in 1..Len(bytes) |-> (bytes[i] + keyStream(getKey, iv, i)) % CipherMod]
    IN  <<iv>> \o <<authTag(getKey, iv, ct)>> \o ct

\* Mutant of decrypt: the tag is not verified.
decryptUnverified(blob) ==
    LET iv == SubSeq(blob, 1, IV_LENGTH)[1]
        ct == SubSeq(blob, IV_LENGTH + TAG_LENGTH + 1, Len(blob))
    IN  [ok |-> TRUE,
         value |-> utf8Decode([i \in 1..Len(ct) |->
                      (ct[i] + CipherMod - keyStream(getKey, iv, i)) % CipherMod])]

\* decrypt(blob): the plaintext, or a throw when the tag does not verify.
decrypt(blob) ==
    LET iv == SubSeq(blob, 1, IV_LENGTH)[1]
        tag == SubSeq(blob, IV_LENGTH + 1, IV_LENGTH + TAG_LENGTH)[1]
        ct == SubSeq(blob, IV_LENGTH + TAG_LENGTH + 1, Len(blob))
    IN  IF tag = authTag(getKey, iv, ct)
        THEN [ok |-> TRUE,
              value |-> utf8Decode([i \in 1..Len(ct) |->
                           (ct[i] + CipherMod - keyStream(getKey, iv, i)) % CipherMod])]
        ELSE [ok |-> FALSE, value |-> <<>>]

(* --------------------------- server/db.ts ------------------------------ *)

\* Mutant of getAccountById: the row is looked up by id alone.
getAccountByIdOfAnyUser(accountId, userId) ==
    IF accountId \in AccountIds THEN accounts[accountId] ELSE NoRow

\* getAccountById(accountId, userId): the row, or NoRow (null).
getAccountById(accountId, userId) ==
    IF accountId \in AccountIds /\ accounts[accountId] # NoRow
       /\ accounts[accountId].userId = userId
    THEN accounts[accountId]
    ELSE NoRow

\* createAccount(data): the accounts table after the insert.
createAccount(data) == [accounts EXCEPT ![nextAccountId] = data]

\* Mutant of deleteAccount: every account of the user is deleted.
deleteAccountsOfUser(accountId, userId) ==
    [a \in AccountIds |->
        IF accounts[a] # NoRow /\ accounts[a].userId = userId
        THEN NoRow ELSE accounts[a]]

\* deleteAccount(accountId, userId): the accounts table after the delete.
deleteAccount(accountId, userId) ==
    [a \in AccountIds |->
        IF a = accountId /\ accounts[a] # NoRow /\ accounts[a].userId = userId
        THEN NoRow ELSE accounts[a]]

\* Mutant of setDefaultAccount: the flag is set without clearing the others.
setDefaultAccountWithoutClear(accountId, userId) ==
    [a \in AccountIds |->
        IF a = accountId /\ accounts[a] # NoRow /\ accounts[a].userId = userId
        THEN [accounts[a] EXCEPT !.isDefault = 1] ELSE accounts[a]]

\* The first update of setDefaultAccount: every default of the user is cleared.
clearDefaults(tbl, userId) ==
    [a \in AccountIds |->
        IF tbl[a] # NoRow /\ tbl[a].userId = userId
        THEN [tbl[a] EXCEPT !.isDefault = 0] ELSE tbl[a]]

\* The second update of setDefaultAccount: the named account of the user is
\* made the default.
setDefaultFlag(tbl, accountId, userId) ==
    [a \in AccountIds |->
        IF a = accountId /\ tbl[a] # NoRow /\ tbl[a].userId = userId
        THEN [tbl[a] EXCEPT !.isDefault = 1] ELSE tbl[a]]

\* setDefaultAccount(accountId, userId): clear every default of the user, then set one.
setDefaultAccount(accountId, userId) ==
    setDefaultFlag(clearDefaults(accounts, userId), accountId, userId)

\* Mutant of listAccountsByUser: every column of the rows is selected.
listAccountsByUserAllColumns(userId) ==
    {[id |-> a, name |-> accounts[a].name, apiBaseUrl |-> accounts[a].apiBaseUrl,
      isDefault |-> accounts[a].isDefault,
      apiKeyEncrypted |-> accounts[a].apiKeyEncrypted] :
        a \in {x \in AccountIds : accounts[x] # NoRow /\ accounts[x].userId = userId}}

\* listAccountsByUser(userId): the selected columns of the user's rows.
listAccountsByUser(userId) ==
    {[id |-> a, name |-> accounts[a].name, apiBaseUrl |-> accounts[a].apiBaseUrl,
      isDefault |-> accounts[a].isDefault] :
        a \in {x \in AccountIds : accounts[x] # NoRow /\ accounts[x].userId = userId}}

\* getTaskById(taskId, userId): the row, or NoRow (null).
getTaskById(taskId, userId) ==
    IF taskId \in TaskIds /\ tasks[taskId] # NoRow /\ tasks[taskId].userId = userId
    THEN tasks[taskId]
    ELSE NoRow

\* createTask(data): the tasks table after the insert.
createTask(data) == [tasks EXCEPT ![nextTaskId] = data]

\* The columns updateTask may set (its Pick<...> parameter type).
UpdatableColumns ==
    {"title", "status", "taskUrl", "shareUrl", "creditUsage", "conversationHistory"}

\* Row r with the columns of data written over it.
setColumns(r, data) ==
    [f \in DOMAIN r |-> IF f \in DOMAIN data THEN data[f] ELSE r[f]]

\* updateTask(taskId, userId, data): the tasks table after the update; data
\* carries updatable columns only.
updateTask(taskId, userId, data) ==
    [t \in TaskIds |->
        IF t = taskId /\ tasks[t] # NoRow /\ tasks[t].userId = userId
        THEN setColumns(tasks[t], [f \in DOMAIN data \cap UpdatableColumns |-> data[f]])
        ELSE tasks[t]]

\* deleteTask(taskId, userId): the tasks table after the delete.
deleteTask(taskId, userId) ==
    [t \in TaskIds |->
        IF t = taskId /\ tasks[t] # NoRow /\ tasks[t].userId = userId
        THEN NoRow ELSE tasks[t]]

\* listTasksByUser(userId, accountId): the user's rows, of one account when
\* accountId is given (0 is an absent accountId).
listTasksByUser(userId, accountId) ==
    {[id |-> t, row |-> tasks[t]] :
        t \in {x \in TaskIds : /\ tasks[x] # NoRow
                               /\ tasks[x].userId = userId
                               /\ (accountId # 0 => tasks[x].accountId = accountId)}}

(* ------------------------ the remote MANUS API ------------------------- *)

\* A response carries an id ("r1", "r2"), a status string ("" is an empty
\* status, "error" a status outside the schema's enum), metadata.credit_usage
\* as a decimal string (<<>> is absent), the other metadata and the output.

\* Remote output messages: an assistant text, an echoed user input, an
\* assistant file, and a message of a role that is neither user nor assistant.
MsgAssistantText ==
    [id |-> "m1", role |-> "assistant",
     content |-> <<[type |-> "output_text", text |-> <<"y", "o">>]>>]

MsgUserEcho ==
    [id |-> "m0", role |-> "user",
     content |-> <<[type |-> "input_text", text |-> <<"h", "i">>]>>]

MsgAssistantFile ==
    [id |-> "m2", role |-> "assistant",
     content |-> <<[type |-> "output_file", fileUrl |-> "f1", fileName |-> "a.txt"],
                   [type |-> "output_text"]>>]

MsgSystem ==
    [id |-> "m3", role |-> "system",
     content |-> <<[type |-> "output_text", text |-> <<"s">>]>>]

\* metadata.task_url / share_url / task_title; "" and <<>> are absent.
NoMetadata == [task_url |-> "", share_url |-> "", task_title |-> <<>>]

FullMetadata == [task_url |-> "u1", share_url |-> "s1", task_title |-> <<"T">>]

Response(id, status, credit_usage, metadata, present, items) ==
    [id |-> id, status |-> status, credit_usage |-> credit_usage, metadata |-> metadata,
     output |-> [present |-> present, items |-> items]]

\* The responses the remote answers with: every id, status, credit usage,
\* metadata and output shape above occurs in at least one of them.
Responses ==
    {Response("r1", "running", <<>>, NoMetadata, FALSE, <<>>),
     Response("r2", "completed", <<"5">>, FullMetadata, TRUE, <<MsgUserEcho, MsgAssistantFile>>),
     Response("r2", "pending", <<"1", "0">>, NoMetadata, TRUE, <<MsgAssistantText>>),
     Response("r1", "failed", <<"5">>, FullMetadata, TRUE, <<>>),
     Response("r2", "", <<>>, FullMetadata, TRUE, <<MsgSystem, MsgAssistantText>>),
     Response("r1", "error", <<"1", "0">>, NoMetadata, TRUE, <<MsgAssistantText>>),
     Response("r2", "running", <<"5">>, NoMetadata, TRUE, <<MsgUserEcho, MsgAssistantFile>>),
     Response("r1", "completed", <<>>, NoMetadata, FALSE, <<>>)}

\* HTTP status of a failed remote call; 0 is a failure without a response
\* (a timeout, a refused connection).
HttpErrors == {0, 401, 403, 500}

\* The failures the task handlers meet (they never look at the status).
TaskHttpErrors == {0}

NoResponse == [none |-> TRUE]

\* What one remote call can come to: a response, or a transport error.
RemoteOutcomes ==
    [ok : {TRUE}, http : {200}, resp : Responses]
        \cup [ok : {FALSE}, http : TaskHttpErrors, resp : {NoResponse}]

(* ------------------ server/routers/task.ts: helpers -------------------- *)

\* Value of a decimal digit character, -1 for any other character.
DigitValue(c) ==
    CASE c = "0" -> 0 [] c = "1" -> 1 [] c = "2" -> 2 [] c = "3" -> 3 [] c = "4" -> 4
      [] c = "5" -> 5 [] c = "6" -> 6 [] c = "7" -> 7 [] c = "8" -> 8 [] c = "9" -> 9
      [] OTHER -> -1

\* Length of the longest prefix of s made of digits.
RECURSIVE DigitPrefix(_)
DigitPrefix(s) ==
    IF s = <<>> \/ DigitValue(Head(s)) < 0 THEN 0 ELSE 1 + DigitPrefix(Tail(s))

\* Value of the digit string s read left to right from acc.
RECURSIVE DigitsValue(_, _)
DigitsValue(s, acc) ==
    IF s = <<>> THEN acc ELSE DigitsValue(Tail(s), 10 * acc + DigitValue(Head(s)))

\* parseInt(s, 10) on an unsigned string: the value of its leading digits,
\* NaN when it has none.
NaN == "NaN"

parseInt(s) ==
    IF DigitPrefix(s) = 0 THEN NaN ELSE DigitsValue(SubSeq(s, 1, DigitPrefix(s)), 0)

\* One content item of a remote message as parseManusOutput maps it.
parseContent(c) ==
    IF c.type = "output_file" \/ ("fileUrl" \in DOMAIN c /\ c.fileUrl # "")
    THEN [f \in {"type"} \cup (DOMAIN c \cap {"text", "fileUrl", "fileName", "mimeType"}) |->
            IF f = "type" THEN "file" ELSE c[f]]
    ELSE [type |-> "text", text |-> IF "text" \in DOMAIN c THEN c.text ELSE <<>>]

\* parseManusOutput(output): every message of the output, role kept as sent.
parseManusOutput(output) ==
    IF ~output.present THEN <<>>
    ELSE [i \in 1..Len(output.items) |->
            [id |-> output.items[i].id,
             role |-> output.items[i].role,
             content |-> [j \in 1..Len(output.items[i].content) |->
                            parseContent(output.items[i].content[j])]]]

\* Mutant of assistantMessages: nothing is filtered out.
assistantMessagesUnfiltered(parsed) == parsed

\* parsed.filter((m) => m.role === "assistant")
assistantMessages(parsed) == SelectSeq(parsed, LAMBDA m : m.role = "assistant")

\* The user message a handler builds from the prompt.
userMessage(prompt) ==
    [role |-> "user", content |-> <<[type |-> "text", text |-> prompt]>>]

\* prompt.slice(0, TitleLength)
TitleLength == 100

slice(s, n) == SubSeq(s, 1, IF Len(s) < n THEN Len(s) ELSE n)

\* A call that returns nothing: it threw, or it was rejected.
NoResult == [none |-> TRUE]

\* The TRPCError a handler throws for a missing row: code NOT_FOUND and a message.
AccountNotFound == [message |-> "Account not found"]

TaskNotFound == [message |-> "Task not found"]

\* resolveAccount(accountId, userId): the credentials, or the error thrown.
resolveAccount(accountId, userId) ==
    LET account == getAccountById(accountId, userId)
    IN  IF account = NoRow
        THEN [error |-> "NOT_FOUND", thrown |-> AccountNotFound,
              apiKey |-> <<>>, baseUrl |-> ""]
        ELSE IF ~decrypt(account.apiKeyEncrypted).ok
             THEN [error |-> "DECRYPT_FAILED", thrown |-> NoResult,
                   apiKey |-> <<>>, baseUrl |-> ""]
             ELSE [error |-> "", thrown |-> NoResult,
                   apiKey |-> decrypt(account.apiKeyEncrypted).value,
                   baseUrl |-> account.apiBaseUrl]

(* --------------------- the record of the last call --------------------- *)


\* One remote call as issued: the proxy function, the key sent, the id sent
\* (previous_response_id of a continue, the path id of a get).
RemoteCall(fn, apiKey, id) == [fn |-> fn, apiKey |-> apiKey, id |-> id]

\* The call that has just completed.
Call(op, user, id, prompt, outcome, calls, remote, result) ==
    [n |-> last.n + 1,
     op |-> op, user |-> user, id |-> id, prompt |-> prompt, outcome |-> outcome,
     calls |-> calls, remote |-> remote, result |-> result]

NoRemote == [ok |-> FALSE, http |-> -1, resp |-> NoResponse]

\* No call in progress, n calls completed so far.
NoCall(n) ==
    [n |-> n, op |-> "none", user |-> 0, id |-> 0, prompt |-> <<>>,
     outcome |-> "ok", calls |-> <<>>, remote |-> NoRemote, result |-> NoResult]

\* The server takes the next call.
Idle == last.op = "none" /\ last.n < MaxCalls

\* The result of the completed call has been handed to the caller.
Return ==
    /\ last.op # "none"
    /\ last' = NoCall(last.n)
    /\ UNCHANGED <<accounts, tasks, nextAccountId, nextTaskId, secret, vault, inflight, database>>

\* The process has DATABASE_URL set and its connection open; users holds the
\* openIds of the stored user rows.
Connected == [url |-> TRUE, conn |-> "open", users |-> {}]

\* The vault has not been called.
NoVault == [op |-> "none"]

\* The two callers of the overlapping-calls specification, neither in a call.
Callers == {1, 2}

NoInflight == [c \in Callers |-> [pc |-> "idle"]]

\* Empty tables, the secret unset.
Init ==
    /\ accounts = [a \in AccountIds |-> NoRow]
    /\ tasks = [t \in TaskIds |-> NoRow]
    /\ nextAccountId = 1
    /\ nextTaskId = 1
    /\ last = NoCall(0)
    /\ secret = ""
    /\ vault = NoVault
    /\ inflight = NoInflight
    /\ database = Connected

\* The server is restarted with another ENV.cookieSecret; the tables persist.
rotateSecret ==
    /\ Idle
    /\ \E s \in Secrets \ {secret} : secret' = s
    /\ last' = NoCall(last.n + 1)
    /\ UNCHANGED <<accounts, tasks, nextAccountId, nextTaskId, vault, inflight, database>>

(* ------------------------ server/routers/task.ts ----------------------- *)

\* The row task.create inserts for prompt p and remote response r.
createdRow(u, a, p, r) ==
    [manusTaskId |-> r.id,
     userId |-> u,
     accountId |-> a,
     title |-> IF r.metadata.task_title # <<>> THEN r.metadata.task_title
               ELSE slice(p, TitleLength),
     status |-> IF r.status # "" THEN r.status ELSE "unknown",
     agentProfile |-> "manus-1.6",
     taskMode |-> "agent",
     projectId |-> NULL,
     taskUrl |-> IF r.metadata.task_url # "" THEN r.metadata.task_url ELSE NULL,
     shareUrl |-> IF r.metadata.share_url # "" THEN r.metadata.share_url ELSE NULL,
     creditUsage |-> IF r.credit_usage # <<>> THEN parseInt(r.credit_usage) ELSE 0,
     conversationHistory |->
        <<userMessage(p)>> \o assistantMessages(parseManusOutput(r.output))]

\* What task.create and task.continue return.
turnResult(id, r, history) ==
    [id |-> id, manusTaskId |-> r.id, status |-> r.status,
     taskUrl |-> r.metadata.task_url, conversationHistory |-> history]

\* Mutant of turnFailure: the error is swallowed.
turnFailureSwallowed == [outcome |-> "ok", result |-> NoResult]

\* createManusTask / continueManusTask threw: nothing catches it, the caller
\* gets the error.
turnFailure == [outcome |-> "REMOTE_ERROR", result |-> NoResult]

\* task.create
taskCreate(u, a, p) ==
    /\ Idle
    /\ LET creds == resolveAccount(a, u)
           call == RemoteCall("createManusTask", creds.apiKey, NULL)
       IN  IF p = <<>>
           THEN /\ last' = Call("task.create", u, a, p, "BAD_REQUEST", <<>>, NoRemote, NoResult)
                /\ UNCHANGED <<accounts, tasks, nextAccountId, nextTaskId, secret, vault, inflight, database>>
           ELSE IF creds.error # ""
           THEN /\ last' = Call("task.create", u, a, p, creds.error, <<>>, NoRemote, creds.thrown)
                /\ UNCHANGED <<accounts, tasks, nextAccountId, nextTaskId, secret, vault, inflight, database>>
           ELSE \E remote \in RemoteOutcomes :
                   IF ~remote.ok
                   THEN /\ last' = Call("task.create", u, a, p, turnFailure.outcome, <<call>>,
                                        remote, turnFailure.result)
                        /\ UNCHANGED <<accounts, tasks, nextAccountId, nextTaskId, secret, vault, inflight, database>>
                   ELSE LET row == createdRow(u, a, p, remote.resp)
                        IN  /\ nextTaskId <= MaxTasks
                            /\ tasks' = createTask(row)
                            /\ nextTaskId' = nextTaskId + 1
                            /\ last' = Call("task.create", u, a, p, "ok", <<call>>, remote,
                                            turnResult(nextTaskId, remote.resp,
                                                       row.conversationHistory))
                            /\ UNCHANGED <<accounts, nextAccountId, secret, vault, inflight, database>>

\* Mutant of continueUpdates: the history restarts at the new prompt.
continueUpdatesRestartHistory(task, p, r) ==
    [status |-> IF r.status # "" THEN r.status ELSE task.status,
     taskUrl |-> IF r.metadata.task_url # "" THEN r.metadata.task_url ELSE task.taskUrl,
     creditUsage |-> IF r.credit_usage # <<>>
                     THEN task.creditUsage + parseInt(r.credit_usage)
                     ELSE task.creditUsage,
     conversationHistory |->
        <<userMessage(p)>> \o assistantMessages(parseManusOutput(r.output))]

\* Mutant of continueUpdates: the reported usage replaces the stored one.
continueUpdatesOverwriteCredit(task, p, r) ==
    [status |-> IF r.status # "" THEN r.status ELSE task.status,
     taskUrl |-> IF r.metadata.task_url # "" THEN r.metadata.task_url ELSE task.taskUrl,
     creditUsage |-> IF r.credit_usage # <<>>
                     THEN parseInt(r.credit_usage)
                     ELSE task.creditUsage,
     conversationHistory |->
        task.conversationHistory \o <<userMessage(p)>>
            \o assistantMessages(parseManusOutput(r.output))]

\* The columns task.continue writes for prompt p and remote response r.
continueUpdates(task, p, r) ==
    [status |-> IF r.status # "" THEN r.status ELSE task.status,
     taskUrl |-> IF r.metadata.task_url # "" THEN r.metadata.task_url ELSE task.taskUrl,
     creditUsage |-> IF r.credit_usage # <<>>
                     THEN task.creditUsage + parseInt(r.credit_usage)
                     ELSE task.creditUsage,
     conversationHistory |->
        task.conversationHistory \o <<userMessage(p)>>
            \o assistantMessages(parseManusOutput(r.output))]

\* task.continue
taskContinue(u, t, p) ==
    /\ Idle
    /\ LET task == getTaskById(t, u)
           creds == resolveAccount(task.accountId, u)
           call == RemoteCall("continueManusTask", creds.apiKey, task.manusTaskId)
       IN  IF p = <<>>
           THEN /\ last' = Call("task.continue", u, t, p, "BAD_REQUEST", <<>>, NoRemote, NoResult)
                /\ UNCHANGED <<accounts, tasks, nextAccountId, nextTaskId, secret, vault, inflight, database>>
           ELSE IF task = NoRow
           THEN /\ last' = Call("task.continue", u, t, p, "NOT_FOUND", <<>>, NoRemote, TaskNotFound)
                /\ UNCHANGED <<accounts, tasks, nextAccountId, nextTaskId, secret, vault, inflight, database>>
           ELSE IF creds.error # ""
           THEN /\ last' = Call("task.continue", u, t, p, creds.error, <<>>, NoRemote, creds.thrown)
                /\ UNCHANGED <<accounts, tasks, nextAccountId, nextTaskId, secret, vault, inflight, database>>
           ELSE \E remote \in RemoteOutcomes :
                   IF ~remote.ok
                   THEN /\ last' = Call("task.continue", u, t, p, turnFailure.outcome,
                                        <<call>>, remote, turnFailure.result)
                        /\ UNCHANGED <<accounts, tasks, nextAccountId, nextTaskId, secret, vault, inflight, database>>
                   ELSE LET updates == continueUpdates(task, p, remote.resp)
                        IN  /\ Len(updates.conversationHistory) <= MaxHist
                            /\ updates.creditUsage <= MaxCredit
                            /\ tasks' = updateTask(t, u, updates)
                            /\ last' = Call("task.continue", u, t, p, "ok", <<call>>, remote,
                                            turnResult(t, remote.resp,
                                                       updates.conversationHistory))
                            /\ UNCHANGED <<accounts, nextAccountId, nextTaskId, secret, vault, inflight, database>>

\* Mutant of getUpdates: the parsed output is appended to the stored history.
getUpdatesMerging(task, r) ==
    LET always == {"status"}
        title == IF r.metadata.task_title # <<>> /\ task.title = UntitledTask
                 THEN {"title"} ELSE {}
        credit == IF r.credit_usage # <<>> THEN {"creditUsage"} ELSE {}
        url == IF r.metadata.task_url # "" THEN {"taskUrl"} ELSE {}
        history == IF r.output.present /\ Len(r.output.items) > 0
                   THEN {"conversationHistory"} ELSE {}
    IN  [f \in always \cup title \cup credit \cup url \cup history |->
            CASE f = "status" -> r.status
              [] f = "title" -> r.metadata.task_title
              [] f = "creditUsage" -> parseInt(r.credit_usage)
              [] f = "taskUrl" -> r.metadata.task_url
              [] f = "conversationHistory" ->
                    task.conversationHistory \o parseManusOutput(r.output)]

\* The columns task.get writes for remote response r.
getUpdates(task, r) ==
    LET always == {"status"}
        title == IF r.metadata.task_title # <<>> /\ task.title = UntitledTask
                 THEN {"title"} ELSE {}
        credit == IF r.credit_usage # <<>> THEN {"creditUsage"} ELSE {}
        url == IF r.metadata.task_url # "" THEN {"taskUrl"} ELSE {}
        history == IF r.output.present /\ Len(r.output.items) > 0
                   THEN {"conversationHistory"} ELSE {}
    IN  [f \in always \cup title \cup credit \cup url \cup history |->
            CASE f = "status" -> r.status
              [] f = "title" -> r.metadata.task_title
              [] f = "creditUsage" -> parseInt(r.credit_usage)
              [] f = "taskUrl" -> r.metadata.task_url
              [] f = "conversationHistory" -> parseManusOutput(r.output)]

\* What task.get returns: the row under its id.
getResult(t, row) == [id |-> t, row |-> row]

\* Mutant of needsSync: a completed task is synced too.
needsSyncUnlessFailed(status) == status \in {"running", "pending", "unknown", "completed"}

\* task.get syncs with the remote while the stored status is one of these.
needsSync(status) == status \in {"running", "pending", "unknown"}

\* Mutant of getFailure: the error is thrown again.
getFailureRethrown(t, task) == [outcome |-> "REMOTE_ERROR", result |-> NoResult]

\* The catch block of task.get: the error is logged, the cached row returned.
getFailure(t, task) == [outcome |-> "ok", result |-> getResult(t, task)]

\* task.get
taskGet(u, t) ==
    /\ Idle
    /\ LET task == getTaskById(t, u)
           creds == resolveAccount(task.accountId, u)
           call == RemoteCall("getManusTask", creds.apiKey, task.manusTaskId)
       IN  IF task = NoRow
           THEN /\ last' = Call("task.get", u, t, <<>>, "NOT_FOUND", <<>>, NoRemote, TaskNotFound)
                /\ UNCHANGED <<accounts, tasks, nextAccountId, nextTaskId, secret, vault, inflight, database>>
           ELSE IF ~needsSync(task.status)
           THEN /\ last' = Call("task.get", u, t, <<>>, "ok", <<>>, NoRemote, getResult(t, task))
                /\ UNCHANGED <<accounts, tasks, nextAccountId, nextTaskId, secret, vault, inflight, database>>
           ELSE IF creds.error # ""
           THEN /\ last' = Call("task.get", u, t, <<>>, getFailure(t, task).outcome, <<>>,
                                NoRemote, getFailure(t, task).result)
                /\ UNCHANGED <<accounts, tasks, nextAccountId, nextTaskId, secret, vault, inflight, database>>
           ELSE \E remote \in RemoteOutcomes :
                   IF ~remote.ok
                   THEN /\ last' = Call("task.get", u, t, <<>>, getFailure(t, task).outcome,
                                        <<call>>, remote, getFailure(t, task).result)
                        /\ UNCHANGED <<accounts, tasks, nextAccountId, nextTaskId, secret, vault, inflight, database>>
                   ELSE LET updates == getUpdates(task, remote.resp)
                        IN  /\ tasks' = updateTask(t, u, updates)
                            /\ last' = Call("task.get", u, t, <<>>, "ok", <<call>>, remote,
                                            getResult(t, setColumns(task, updates)))
                            /\ UNCHANGED <<accounts, nextAccountId, nextTaskId, secret, vault, inflight, database>>

\* What task.poll returns.
pollResult(t, task, status) == [id |-> t, manusTaskId |-> task.manusTaskId, status |-> status]

\* Mutant of needsPoll: an unknown task is polled too.
needsPollOrUnknown(status) == status \in {"running", "pending", "unknown"}

\* task.poll asks the remote while the stored status is one of these.
needsPoll(status) == status \in {"running", "pending"}

\* The catch block of task.poll: the cached status is returned.
pollFailure(t, task) == [outcome |-> "ok", result |-> pollResult(t, task, task.status)]

\* task.poll
taskPoll(u, t) ==
    /\ Idle
    /\ LET task == getTaskById(t, u)
           creds == resolveAccount(task.accountId, u)
           call == RemoteCall("getManusTask", creds.apiKey, task.manusTaskId)
       IN  IF task = NoRow
           THEN /\ last' = Call("task.poll", u, t, <<>>, "NOT_FOUND", <<>>, NoRemote, TaskNotFound)
                /\ UNCHANGED <<accounts, tasks, nextAccountId, nextTaskId, secret, vault, inflight, database>>
           ELSE IF ~needsPoll(task.status)
           THEN /\ last' = Call("task.poll", u, t, <<>>, "ok", <<>>, NoRemote,
                                pollResult(t, task, task.status))
                /\ UNCHANGED <<accounts, tasks, nextAccountId, nextTaskId, secret, vault, inflight, database>>
           ELSE IF creds.error # ""
           THEN /\ last' = Call("task.poll", u, t, <<>>, pollFailure(t, task).outcome, <<>>,
                                NoRemote, pollFailure(t, task).result)
                /\ UNCHANGED <<accounts, tasks, nextAccountId, nextTaskId, secret, vault, inflight, database>>
           ELSE \E remote \in RemoteOutcomes :
                   IF ~remote.ok
                   THEN /\ last' = Call("task.poll", u, t, <<>>, pollFailure(t, task).outcome,
                                        <<call>>, remote, pollFailure(t, task).result)
                        /\ UNCHANGED <<accounts, tasks, nextAccountId, nextTaskId, secret, vault, inflight, database>>
                   ELSE /\ tasks' = IF remote.resp.status # task.status
                                    THEN updateTask(t, u, [status |-> remote.resp.status])
                                    ELSE tasks
                        /\ last' = Call("task.poll", u, t, <<>>, "ok", <<call>>, remote,
                                        pollResult(t, task, remote.resp.status))
                        /\ UNCHANGED <<accounts, nextAccountId, nextTaskId, secret, vault, inflight, database>>

\* task.list
taskList(u, a) ==
    /\ Idle
    /\ /\ last' = Call("task.list", u, a, <<>>, "ok", <<>>, NoRemote,
                       [rows |-> listTasksByUser(u, a)])
       /\ UNCHANGED <<accounts, tasks, nextAccountId, nextTaskId, secret, vault, inflight, database>>

\* task.delete
taskDelete(u, t) ==
    /\ Idle
    /\ IF getTaskById(t, u) = NoRow
       THEN /\ last' = Call("task.delete", u, t, <<>>, "NOT_FOUND", <<>>, NoRemote, TaskNotFound)
            /\ UNCHANGED <<accounts, tasks, nextAccountId, nextTaskId, secret, vault, inflight, database>>
       ELSE /\ tasks' = deleteTask(t, u)
            /\ last' = Call("task.delete", u, t, <<>>, "ok", <<>>, NoRemote, [success |-> TRUE])
            /\ UNCHANGED <<accounts, nextAccountId, nextTaskId, secret, vault, inflight, database>>

(* ---------------------- server/routers/account.ts ---------------------- *)

DefaultBaseUrl == "https://api.manus.im"

\* z.string().url(): the mock strings that are well-formed URLs.
isUrl(s) == s \in {"https://custom.manus.api/v1", DefaultBaseUrl}

\* The input of an account.create call, kept with the record of the call.
createInput(name, apiKey, apiBaseUrl) ==
    [name |-> name, apiKey |-> apiKey, apiBaseUrl |-> apiBaseUrl]

\* Mutant of validAccountInput: apiBaseUrl is not validated.
validAccountInputAnyUrl(name, apiKey, apiBaseUrl) ==
    /\ name # ""
    /\ apiKey # <<>>

\* The input schema of account.create.
validAccountInput(name, apiKey, apiBaseUrl) ==
    /\ name # ""
    /\ apiKey # <<>>
    /\ (apiBaseUrl # "" => isUrl(apiBaseUrl))

\* The row account.create inserts, the key encrypted under nonce iv.
accountRow(u, name, apiKey, apiBaseUrl, iv) ==
    [userId |-> u,
     name |-> name,
     apiKeyEncrypted |-> encrypt(apiKey, iv),
     apiBaseUrl |-> IF apiBaseUrl # "" THEN apiBaseUrl ELSE DefaultBaseUrl,
     isDefault |-> 0]

\* account.create
accountCreate(u, name, apiKey, apiBaseUrl) ==
    /\ Idle
    /\ IF ~validAccountInput(name, apiKey, apiBaseUrl)
       THEN /\ last' = Call("account.create", u, 0, <<>>, "BAD_REQUEST", <<>>, NoRemote, NoResult)
                          @@ createInput(name, apiKey, apiBaseUrl)
            /\ UNCHANGED <<accounts, tasks, nextAccountId, nextTaskId, secret, vault, inflight, database>>
       ELSE \E iv \in Nonces :
               LET row == accountRow(u, name, apiKey, apiBaseUrl, iv)
               IN  /\ nextAccountId <= MaxAccounts
                   /\ accounts' = createAccount(row)
                   /\ nextAccountId' = nextAccountId + 1
                   /\ last' = Call("account.create", u, nextAccountId, <<>>, "ok", <<>>, NoRemote,
                                   [id |-> nextAccountId, name |-> row.name,
                                    apiBaseUrl |-> row.apiBaseUrl, isDefault |-> 0])
                                  @@ createInput(name, apiKey, apiBaseUrl)
                   /\ UNCHANGED <<tasks, nextTaskId, secret, vault, inflight, database>>

\* account.list
accountList(u) ==
    /\ Idle
    /\ /\ last' = Call("account.list", u, 0, <<>>, "ok", <<>>, NoRemote,
                       [rows |-> listAccountsByUser(u)])
       /\ UNCHANGED <<accounts, tasks, nextAccountId, nextTaskId, secret, vault, inflight, database>>

\* account.delete
accountDelete(u, a) ==
    /\ Idle
    /\ IF getAccountById(a, u) = NoRow
       THEN /\ last' = Call("account.delete", u, a, <<>>, "NOT_FOUND", <<>>, NoRemote, AccountNotFound)
            /\ UNCHANGED <<accounts, tasks, nextAccountId, nextTaskId, secret, vault, inflight, database>>
       ELSE /\ accounts' = deleteAccount(a, u)
            /\ last' = Call("account.delete", u, a, <<>>, "ok", <<>>, NoRemote,
                            [success |-> TRUE])
            /\ UNCHANGED <<tasks, nextAccountId, nextTaskId, secret, vault, inflight, database>>

\* account.setDefault
accountSetDefault(u, a) ==
    /\ Idle
    /\ IF getAccountById(a, u) = NoRow
       THEN /\ last' = Call("account.setDefault", u, a, <<>>, "NOT_FOUND", <<>>, NoRemote,
                            AccountNotFound)
            /\ UNCHANGED <<accounts, tasks, nextAccountId, nextTaskId, secret, vault, inflight, database>>
       ELSE /\ accounts' = setDefaultAccount(a, u)
            /\ last' = Call("account.setDefault", u, a, <<>>, "ok", <<>>, NoRemote,
                            [success |-> TRUE])
            /\ UNCHANGED <<tasks, nextAccountId, nextTaskId, secret, vault, inflight, database>>

\* What listManusTasks can come to in account.test: a listing, or a transport error.
ListOutcomes ==
    [ok : {TRUE}, http : {200}, resp : {NoResponse}]
        \cup [ok : {FALSE}, http : HttpErrors, resp : {NoResponse}]

\* Mutant of testMessage: only 401 is told apart.
testMessageOnly401(http) ==
    IF http = 401 THEN "Invalid API Key. Please check and try again."
    ELSE "Connection failed"

\* The message account.test returns for a caught error with HTTP status http.
testMessage(http) ==
    IF http = 401 THEN "Invalid API Key. Please check and try again."
    ELSE IF http = 403 THEN "API Key does not have sufficient permissions."
    ELSE "Connection failed"

\* account.test
accountTest(u, a) ==
    /\ Idle
    /\ LET account == getAccountById(a, u)
           key == decrypt(account.apiKeyEncrypted)
           call == RemoteCall("listManusTasks", key.value, NULL)
       IN  IF account = NoRow
           THEN /\ last' = Call("account.test", u, a, <<>>, "NOT_FOUND", <<>>, NoRemote, AccountNotFound)
                /\ UNCHANGED <<accounts, tasks, nextAccountId, nextTaskId, secret, vault, inflight, database>>
           ELSE IF ~key.ok
           THEN /\ last' = Call("account.test", u, a, <<>>, "ok", <<>>, NoRemote,
                                [success |-> FALSE, message |-> testMessage(0)])
                /\ UNCHANGED <<accounts, tasks, nextAccountId, nextTaskId, secret, vault, inflight, database>>
           ELSE \E remote \in ListOutcomes :
                   /\ last' = Call("account.test", u, a, <<>>, "ok", <<call>>, remote,
                                   IF remote.ok
                                   THEN [success |-> TRUE,
                                         message |-> "API Key is valid. Connection successful."]
                                   ELSE [success |-> FALSE, message |-> testMessage(remote.http)])
                   /\ UNCHANGED <<accounts, tasks, nextAccountId, nextTaskId, secret, vault, inflight, database>>

(* --------------------------- the state machine ------------------------- *)

Next ==
    \/ \E u \in Users, name \in NameInputs, apiKey \in ApiKeyInputs, url \in BaseUrlInputs :
          accountCreate(u, name, apiKey, url)
    \/ \E u \in Users : accountList(u)
    \/ \E u \in Users, a \in AccountArgs : accountDelete(u, a)
    \/ \E u \in Users, a \in AccountArgs : accountSetDefault(u, a)
    \/ \E u \in Users, a \in AccountArgs : accountTest(u, a)
    \/ \E u \in Users, a \in AccountArgs, p \in Prompts : taskCreate(u, a, p)
    \/ \E u \in Users, t \in TaskArgs, p \in Prompts : taskContinue(u, t, p)
    \/ \E u \in Users, t \in TaskArgs : taskGet(u, t)
    \/ \E u \in Users, t \in TaskArgs : taskPoll(u, t)
    \/ \E u \in Users, a \in 0..MaxAccounts : taskList(u, a)
    \/ \E u \in Users, t \in TaskArgs : taskDelete(u, t)
    \/ Return
    \/ rotateSecret

Spec == Init /\ [][Next]_vars

(* ----------------------- the vault on its own -------------------------- *)

\* Longest plaintext handed to encrypt.
MaxPlain == 2

\* Largest nonce crypto.randomBytes returns to the vault.
MaxNonce == 1

\* Strings handed to encrypt: every sequence of at most MaxPlain code units.
Plaintexts == UNION {[1..n -> CodeUnits] : n \in 0..MaxPlain}

VaultNonces == 0..MaxNonce

\* encrypt(s): the first call of the vault, drawing nonce iv.
vaultEncrypt(s, iv) ==
    /\ vault.op = "none"
    /\ vault' = [op |-> "encrypt", plain |-> s, ivs |-> <<iv>>,
                 blobs |-> <<encrypt(s, iv)>>, sealedUnder |-> secret,
                 tampered |-> 0]
    /\ UNCHANGED <<accounts, tasks, nextAccountId, nextTaskId, last, secret, inflight, database>>

\* encrypt(s) once more with the same plaintext and secret, drawing nonce iv.
vaultEncryptAgain(iv) ==
    /\ vault.op = "encrypt"
    /\ Len(vault.blobs) = 1
    /\ vault.sealedUnder = secret
    /\ vault' = [vault EXCEPT !.ivs = Append(@, iv),
                              !.blobs = Append(@, encrypt(vault.plain, iv))]
    /\ UNCHANGED <<accounts, tasks, nextAccountId, nextTaskId, last, secret, inflight, database>>

\* Symbol i of the last blob, in its tag or ciphertext segment, is changed to v.
vaultTamper(i, v) ==
    /\ vault.op = "encrypt"
    /\ i \in (IV_LENGTH + 1)..Len(vault.blobs[Len(vault.blobs)])
    /\ v # vault.blobs[Len(vault.blobs)][i]
    /\ vault' = [vault EXCEPT !.op = "tamper",
                              !.blobs[Len(vault.blobs)][i] = v,
                              !.tampered = i]
    /\ UNCHANGED <<accounts, tasks, nextAccountId, nextTaskId, last, secret, inflight, database>>

\* decrypt(blob) for every blob at hand.
vaultDecrypt ==
    /\ vault.op \in {"encrypt", "tamper"}
    /\ vault' = [op |-> "decrypt", plain |-> vault.plain, ivs |-> vault.ivs,
                 blobs |-> vault.blobs, sealedUnder |-> vault.sealedUnder,
                 tampered |-> vault.tampered, openedUnder |-> secret,
                 outs |-> [k \in 1..Len(vault.blobs) |-> decrypt(vault.blobs[k])]]
    /\ UNCHANGED <<accounts, tasks, nextAccountId, nextTaskId, last, secret, inflight, database>>

VaultNext ==
    \/ \E s \in Plaintexts, iv \in VaultNonces : vaultEncrypt(s, iv)
    \/ \E iv \in VaultNonces : vaultEncryptAgain(iv)
    \/ \E i \in 1..(IV_LENGTH + TAG_LENGTH + 4 * MaxPlain), v \in 0..(CipherMod - 1) :
          vaultTamper(i, v)
    \/ vaultDecrypt
    \/ rotateSecret

VaultSpec == Init /\ [][VaultNext]_vars

(* ------------------- overlapping task.continue calls ------------------- *)

\* Prompts of the overlapping calls.
RacePrompts == {<<"h", "i">>, <<"y", "o">>}

\* One account of user 1 and one task on it, as account.create and
\* task.create leave them; no call in progress.
RaceInit ==
    /\ secret = ""
    /\ accounts = [a \in AccountIds |->
                     IF a = 1 THEN accountRow(1, "A", <<"a", "e9">>, "", 0) ELSE NoRow]
    /\ \E r \in Responses :
          tasks = [t \in TaskIds |->
                     IF t = 1 THEN createdRow(1, 1, <<"h", "i">>, r) ELSE NoRow]
    /\ nextAccountId = 2
    /\ nextTaskId = 2
    /\ last = NoCall(0)
    /\ vault = NoVault
    /\ inflight = NoInflight
    /\ database = Connected

\* Caller c is done: its task.continue has returned or thrown.
continueDone(c, outcome, result) ==
    [pc |-> "done", user |-> inflight[c].user, id |-> inflight[c].id,
     prompt |-> inflight[c].prompt, outcome |-> outcome, result |-> result]

\* task.continue up to its first await: the input is validated and the task
\* row is read.
continueRead(c, u, t, p) ==
    /\ inflight[c].pc = "idle"
    /\ inflight' = [inflight EXCEPT ![c] =
           IF getTaskById(t, u) = NoRow
           THEN [pc |-> "done", user |-> u, id |-> t, prompt |-> p,
                 outcome |-> "NOT_FOUND", result |-> TaskNotFound]
           ELSE [pc |-> "read", user |-> u, id |-> t, prompt |-> p,
                 task |-> getTaskById(t, u)]]
    /\ UNCHANGED <<accounts, tasks, nextAccountId, nextTaskId, last, secret, vault, database>>

\* The credentials are resolved and continueManusTask is awaited: the remote
\* answers or fails.
continueCall(c) ==
    /\ inflight[c].pc = "read"
    /\ LET creds == resolveAccount(inflight[c].task.accountId, inflight[c].user)
       IN  IF creds.error # ""
           THEN inflight' = [inflight EXCEPT ![c] = continueDone(c, creds.error, creds.thrown)]
           ELSE \E remote \in RemoteOutcomes :
                   inflight' = [inflight EXCEPT ![c] =
                       IF ~remote.ok
                       THEN continueDone(c, turnFailure.outcome, turnFailure.result)
                       ELSE [pc |-> "answered", user |-> inflight[c].user,
                             id |-> inflight[c].id, prompt |-> inflight[c].prompt,
                             task |-> inflight[c].task, resp |-> remote.resp]]
    /\ UNCHANGED <<accounts, tasks, nextAccountId, nextTaskId, last, secret, vault, database>>

\* Mutant of continueBasis: the row is read again before the write.
continueBasisReadAgain(c) == tasks[inflight[c].id]

\* The task row the handler of caller c computes its update from: the one it
\* read at its start.
continueBasis(c) == inflight[c].task

\* The update is computed and updateTask is awaited; the handler returns.
\* wrote numbers the writes in the order they reach the table.
continueWrite(c) ==
    /\ inflight[c].pc = "answered"
    /\ LET updates == continueUpdates(continueBasis(c), inflight[c].prompt, inflight[c].resp)
       IN  /\ tasks' = updateTask(inflight[c].id, inflight[c].user, updates)
           /\ inflight' = [inflight EXCEPT ![c] =
                  continueDone(c, "ok",
                               turnResult(inflight[c].id, inflight[c].resp,
                                          updates.conversationHistory))
                  @@ [task |-> inflight[c].task, resp |-> inflight[c].resp,
                      wrote |-> 1 + Cardinality({d \in Callers : "wrote" \in DOMAIN inflight[d]})]]
    /\ UNCHANGED <<accounts, nextAccountId, nextTaskId, last, secret, vault, database>>

RaceNext ==
    \/ \E c \in Callers, u \in Users, t \in TaskIds, p \in RacePrompts : continueRead(c, u, t, p)
    \/ \E c \in Callers : continueCall(c)
    \/ \E c \in Callers : continueWrite(c)

RaceSpec == RaceInit /\ [][RaceNext]_vars

(* ----------------- overlapping account.setDefault calls ----------------- *)

\* Two accounts of user 1, as two account.create calls leave them, the first
\* one made the default or not; no call in progress.
DefaultRaceInit ==
    /\ secret = ""
    /\ \E isDefault \in {0, 1} :
          accounts = [a \in AccountIds |->
                        IF a <= 2
                        THEN [accountRow(1, "A", <<"a", "e9">>, "", 0)
                                 EXCEPT !.isDefault = IF a = 1 THEN isDefault ELSE 0]
                        ELSE NoRow]
    /\ tasks = [t \in TaskIds |-> NoRow]
    /\ nextAccountId = 3
    /\ nextTaskId = 1
    /\ last = NoCall(0)
    /\ vault = NoVault
    /\ inflight = NoInflight
    /\ database = Connected

\* account.setDefault up to its first await: the account row is looked up.
setDefaultCheck(c, u, a) ==
    /\ inflight[c].pc = "idle"
    /\ inflight' = [inflight EXCEPT ![c] =
           IF getAccountById(a, u) = NoRow
           THEN [pc |-> "done", user |-> u, id |-> a,
                 outcome |-> "NOT_FOUND", result |-> AccountNotFound]
           ELSE [pc |-> "checked", user |-> u, id |-> a]]
    /\ UNCHANGED <<accounts, tasks, nextAccountId, nextTaskId, last, secret, vault, database>>

\* setDefaultAccount, first update.
setDefaultClear(c) ==
    /\ inflight[c].pc = "checked"
    /\ accounts' = clearDefaults(accounts, inflight[c].user)
    /\ inflight' = [inflight EXCEPT ![c].pc = "cleared"]
    /\ UNCHANGED <<tasks, nextAccountId, nextTaskId, last, secret, vault, database>>

\* setDefaultAccount, second update; the handler returns.
setDefaultSet(c) ==
    /\ inflight[c].pc = "cleared"
    /\ accounts' = setDefaultFlag(accounts, inflight[c].id, inflight[c].user)
    /\ inflight' = [inflight EXCEPT ![c] =
           [pc |-> "done", user |-> inflight[c].user, id |-> inflight[c].id,
            outcome |-> "ok", result |-> [success |-> TRUE]]]
    /\ UNCHANGED <<tasks, nextAccountId, nextTaskId, last, secret, vault, database>>

DefaultRaceNext ==
    \/ \E c \in Callers, u \in Users, a \in AccountArgs : setDefaultCheck(c, u, a)
    \/ \E c \in Callers : setDefaultClear(c)
    \/ \E c \in Callers : setDefaultSet(c)

DefaultRaceSpec == DefaultRaceInit /\ [][DefaultRaceNext]_vars

(* ------------- the repository with and without a database ------------- *)

\* openIds handed to the user helpers; "" is a missing openId.
OpenIds == {"", "u1"}

\* One account and one task of user 1 are stored; the process has not asked
\* for its connection yet, and DATABASE_URL is set or not.
\* Remote answers behind the task rows the repository is given.
RepoResponses == {r \in Responses : r.status \in {"running", "completed"}}

RepoInit ==
    /\ secret = ""
    /\ accounts = [a \in AccountIds |->
                     IF a = 1 THEN accountRow(1, "A", <<"a", "e9">>, "", 0) ELSE NoRow]
    /\ \E r \in RepoResponses :
          tasks = [t \in TaskIds |->
                     IF t = 1 THEN createdRow(1, 1, <<"h", "i">>, r) ELSE NoRow]
    /\ nextAccountId = 2
    /\ nextTaskId = 2
    /\ last = NoCall(0)
    /\ vault = NoVault
    /\ inflight = NoInflight
    /\ \E url \in BOOLEAN : database = [url |-> url, conn |-> "null", users |-> {}]

\* getDb(): the connection it returns and caches; drizzle(url) succeeds when
\* initOk.
getDb(initOk) ==
    IF database.conn = "null" /\ database.url
    THEN IF initOk THEN "open" ELSE "null"
    ELSE database.conn

\* The record of a completed helper call: it threw, or it returned rows
\* (none for void, null and undefined).
helperThrew(op, db) ==
    [op |-> op, available |-> db = "open", outcome |-> "threw", rows |-> {}]

helperReturned(op, db, rows) ==
    [op |-> op, available |-> db = "open", outcome |-> "returned", rows |-> rows]

\* A looked-up row as a set of rows.
found(row) == IF row = NoRow THEN {} ELSE {row}

\* if (!db) throw new Error("Database not available")
unavailable(op, db) == helperThrew(op, db)

\* upsertUser(user)
upsertUser(openId, initOk) ==
    LET db == getDb(initOk)
    IN  IF openId = ""
        THEN /\ last' = helperThrew("upsertUser", database.conn)
             /\ UNCHANGED <<accounts, tasks, nextAccountId, nextTaskId, secret, vault, inflight, database>>
        ELSE /\ last' = helperReturned("upsertUser", db, {})
             /\ database' = [database EXCEPT
                               !.conn = db,
                               !.users = IF db = "open" THEN @ \cup {openId} ELSE @]
             /\ UNCHANGED <<accounts, tasks, nextAccountId, nextTaskId, secret, vault, inflight>>

\* getUserByOpenId(openId)
getUserByOpenId(openId, initOk) ==
    LET db == getDb(initOk)
    IN  /\ last' = helperReturned("getUserByOpenId", db,
                                  IF db = "open" /\ openId \in database.users
                                  THEN {[openId |-> openId]} ELSE {})
        /\ database' = [database EXCEPT !.conn = db]
        /\ UNCHANGED <<accounts, tasks, nextAccountId, nextTaskId, secret, vault, inflight>>

\* createAccount(data)
repoCreateAccount(data, initOk) ==
    LET db == getDb(initOk)
    IN  /\ database' = [database EXCEPT !.conn = db]
        /\ db = "open" => nextAccountId <= MaxAccounts
        /\ IF db = "null"
           THEN /\ last' = unavailable("createAccount", db)
                /\ UNCHANGED <<accounts, tasks, nextAccountId, nextTaskId>>
           ELSE /\ last' = helperReturned("createAccount", db, {[id |-> nextAccountId, row |-> data]})
                /\ accounts' = createAccount(data)
                /\ nextAccountId' = nextAccountId + 1
                /\ UNCHANGED <<tasks, nextTaskId>>
        /\ UNCHANGED <<secret, vault, inflight>>

\* listAccountsByUser(userId)
repoListAccountsByUser(userId, initOk) ==
    LET db == getDb(initOk)
    IN  /\ database' = [database EXCEPT !.conn = db]
        /\ last' = IF db = "null" THEN unavailable("listAccountsByUser", db)
                   ELSE helperReturned("listAccountsByUser", db, listAccountsByUser(userId))
        /\ UNCHANGED <<accounts, tasks, nextAccountId, nextTaskId, secret, vault, inflight>>

\* getAccountById(accountId, userId)
repoGetAccountById(accountId, userId, initOk) ==
    LET db == getDb(initOk)
    IN  /\ database' = [database EXCEPT !.conn = db]
        /\ last' = IF db = "null" THEN unavailable("getAccountById", db)
                   ELSE helperReturned("getAccountById", db, found(getAccountById(accountId, userId)))
        /\ UNCHANGED <<accounts, tasks, nextAccountId, nextTaskId, secret, vault, inflight>>

\* deleteAccount(accountId, userId)
repoDeleteAccount(accountId, userId, initOk) ==
    LET db == getDb(initOk)
    IN  /\ database' = [database EXCEPT !.conn = db]
        /\ IF db = "null"
           THEN /\ last' = unavailable("deleteAccount", db)
                /\ UNCHANGED <<accounts, tasks, nextAccountId, nextTaskId>>
           ELSE /\ last' = helperReturned("deleteAccount", db, {})
                /\ accounts' = deleteAccount(accountId, userId)
                /\ UNCHANGED <<tasks, nextAccountId, nextTaskId>>
        /\ UNCHANGED <<secret, vault, inflight>>

\* setDefaultAccount(accountId, userId)
repoSetDefaultAccount(accountId, userId, initOk) ==
    LET db == getDb(initOk)
    IN  /\ database' = [database EXCEPT !.conn = db]
        /\ IF db = "null"
           THEN /\ last' = unavailable("setDefaultAccount", db)
                /\ UNCHANGED <<accounts, tasks, nextAccountId, nextTaskId>>
           ELSE /\ last' = helperReturned("setDefaultAccount", db, {})
                /\ accounts' = setDefaultAccount(accountId, userId)
                /\ UNCHANGED <<tasks, nextAccountId, nextTaskId>>
        /\ UNCHANGED <<secret, vault, inflight>>

\* createTask(data)
repoCreateTask(data, initOk) ==
    LET db == getDb(initOk)
    IN  /\ database' = [database EXCEPT !.conn = db]
        /\ db = "open" => nextTaskId <= MaxTasks
        /\ IF db = "null"
           THEN /\ last' = unavailable("createTask", db)
                /\ UNCHANGED <<accounts, tasks, nextAccountId, nextTaskId>>
           ELSE /\ last' = helperReturned("createTask", db, {[id |-> nextTaskId, row |-> data]})
                /\ tasks' = createTask(data)
                /\ nextTaskId' = nextTaskId + 1
                /\ UNCHANGED <<accounts, nextAccountId>>
        /\ UNCHANGED <<secret, vault, inflight>>

\* getTaskById(taskId, userId)
repoGetTaskById(taskId, userId, initOk) ==
    LET db == getDb(initOk)
    IN  /\ database' = [database EXCEPT !.conn = db]
        /\ last' = IF db = "null" THEN unavailable("getTaskById", db)
                   ELSE helperReturned("getTaskById", db, found(getTaskById(taskId, userId)))
        /\ UNCHANGED <<accounts, tasks, nextAccountId, nextTaskId, secret, vault, inflight>>

\* getTaskByManusId(manusTaskId, userId): one of the matching rows, or none.
repoGetTaskByManusId(manusTaskId, userId, initOk) ==
    LET db == getDb(initOk)
        matching == {t \in TaskIds : /\ tasks[t] # NoRow
                                     /\ tasks[t].manusTaskId = manusTaskId
                                     /\ tasks[t].userId = userId}
    IN  /\ database' = [database EXCEPT !.conn = db]
        /\ IF db = "null" THEN last' = unavailable("getTaskByManusId", db)
           ELSE IF matching = {} THEN last' = helperReturned("getTaskByManusId", db, {})
           ELSE \E t \in matching :
                   last' = helperReturned("getTaskByManusId", db, {tasks[t]})
        /\ UNCHANGED <<accounts, tasks, nextAccountId, nextTaskId, secret, vault, inflight>>

\* listTasksByUser(userId, accountId)
repoListTasksByUser(userId, accountId, initOk) ==
    LET db == getDb(initOk)
    IN  /\ database' = [database EXCEPT !.conn = db]
        /\ last' = IF db = "null" THEN unavailable("listTasksByUser", db)
                   ELSE helperReturned("listTasksByUser", db, listTasksByUser(userId, accountId))
        /\ UNCHANGED <<accounts, tasks, nextAccountId, nextTaskId, secret, vault, inflight>>

\* updateTask(taskId, userId, data)
repoUpdateTask(taskId, userId, data, initOk) ==
    LET db == getDb(initOk)
    IN  /\ database' = [database EXCEPT !.conn = db]
        /\ IF db = "null"
           THEN /\ last' = unavailable("updateTask", db)
                /\ UNCHANGED <<accounts, tasks, nextAccountId, nextTaskId>>
           ELSE /\ last' = helperReturned("updateTask", db, {})
                /\ tasks' = updateTask(taskId, userId, data)
                /\ UNCHANGED <<accounts, nextAccountId, nextTaskId>>
        /\ UNCHANGED <<secret, vault, inflight>>

\* deleteTask(taskId, userId)
repoDeleteTask(taskId, userId, initOk) ==
    LET db == getDb(initOk)
    IN  /\ database' = [database EXCEPT !.conn = db]
        /\ IF db = "null"
           THEN /\ last' = unavailable("deleteTask", db)
                /\ UNCHANGED <<accounts, tasks, nextAccountId, nextTaskId>>
           ELSE /\ last' = helperReturned("deleteTask", db, {})
                /\ tasks' = deleteTask(taskId, userId)
                /\ UNCHANGED <<accounts, nextAccountId, nextTaskId>>
        /\ UNCHANGED <<secret, vault, inflight>>

\* Rows and updates handed to the repository.
AccountData == {accountRow(u, "A", <<"a", "e9">>, "", 0) : u \in Users}

TaskData == {createdRow(u, 1, <<"h", "i">>, r) : u \in Users, r \in RepoResponses}

TaskUpdates == {[status |-> "completed"], [creditUsage |-> 5]}

RepoNext ==
    \/ \E o \in OpenIds, ok \in BOOLEAN : upsertUser(o, ok)
    \/ \E o \in OpenIds, ok \in BOOLEAN : getUserByOpenId(o, ok)
    \/ \E d \in AccountData, ok \in BOOLEAN : repoCreateAccount(d, ok)
    \/ \E u \in Users, ok \in BOOLEAN : repoListAccountsByUser(u, ok)
    \/ \E a \in AccountArgs, u \in Users, ok \in BOOLEAN : repoGetAccountById(a, u, ok)
    \/ \E a \in AccountArgs, u \in Users, ok \in BOOLEAN : repoDeleteAccount(a, u, ok)
    \/ \E a \in AccountArgs, u \in Users, ok \in BOOLEAN : repoSetDefaultAccount(a, u, ok)
    \/ \E d \in TaskData, ok \in BOOLEAN : repoCreateTask(d, ok)
    \/ \E t \in TaskArgs, u \in Users, ok \in BOOLEAN : repoGetTaskById(t, u, ok)
    \/ \E m \in {"r1", "r2"}, u \in Users, ok \in BOOLEAN : repoGetTaskByManusId(m, u, ok)
    \/ \E u \in Users, a \in 0..MaxAccounts, ok \in BOOLEAN : repoListTasksByUser(u, a, ok)
    \/ \E t \in TaskArgs, u \in Users, d \in TaskUpdates, ok \in BOOLEAN :
          repoUpdateTask(t, u, d, ok)
    \/ \E t \in TaskArgs, u \in Users, ok \in BOOLEAN : repoDeleteTask(t, u, ok)

RepoSpec == RepoInit /\ [][RepoNext]_vars

(* ------------------------------- claims -------------------------------- *)

\* A step in which a handler ran: last' is the call it completed.
CallStep == last.op = "none" /\ last'.op # "none"

\* User u owns an existing task row t (in the state before the call).
OwnsTask(u, t) == t \in TaskIds /\ tasks[t] # NoRow /\ tasks[t].userId = u

\* User u owns an existing account row a (in the state before the call).
OwnsAccount(u, a) == a \in AccountIds /\ accounts[a] # NoRow /\ accounts[a].userId = u

\* C1: after a successful task.continue the stored manusTaskId of the task
\* is the id the remote returned for that continue.
C1_ContinueStoresReturnedId ==
    (last.op = "task.continue" /\ last.outcome = "ok")
        => tasks[last.id].manusTaskId = last.remote.resp.id

\* The number a credit_usage string of the remote stands for.
ReportedValue(usage) ==
    CASE usage = <<"5">> -> 5
      [] usage = <<"1", "0">> -> 10

\* The reported usage, or d when the response reports none.
ReportedOr(usage, d) == IF usage = <<>> THEN d ELSE ReportedValue(usage)

\* C2: the stored creditUsage follows the fold: a create stores the reported
\* usage (0 when none is reported), a successful continue adds the reported
\* usage to the stored one, a successful syncing get stores the reported
\* usage, a response without usage and every failed create, continue or get
\* leave it as it was.
C2_CreditFold ==
    [][(CallStep /\ last'.op \in {"task.create", "task.continue", "task.get"}) =>
          LET c == last'
              synced == c.calls # <<>> /\ c.remote.ok /\ c.outcome = "ok"
          IN  /\ (c.op = "task.create" /\ synced) =>
                    tasks'[c.result.id].creditUsage
                        = ReportedOr(c.remote.resp.credit_usage, 0)
              /\ (c.op = "task.continue" /\ synced) =>
                    tasks'[c.id].creditUsage
                        = tasks[c.id].creditUsage
                            + ReportedOr(c.remote.resp.credit_usage, 0)
              /\ (c.op = "task.get" /\ synced) =>
                    tasks'[c.id].creditUsage
                        = ReportedOr(c.remote.resp.credit_usage, tasks[c.id].creditUsage)
              /\ \A t \in TaskIds :
                    (tasks[t] # NoRow /\ ~(synced /\ c.op # "task.create" /\ c.id = t)) =>
                        tasks'[t] # NoRow /\ tasks'[t].creditUsage = tasks[t].creditUsage
      ]_vars

\* C2 witness: a continue reporting 5 has raised a stored usage of 5 to 10.
C2_Witness ==
    /\ last.op = "task.continue" /\ last.outcome = "ok"
    /\ last.remote.resp.credit_usage = <<"5">>
    /\ tasks[last.id].creditUsage = 10

\* C3: task.get on a task whose stored status is completed or failed issues
\* no remote call, leaves both tables as they are and returns the stored row
\* (so repeating it returns the same data).
C3_TerminalGetIsLocal ==
    [][(/\ CallStep
        /\ last'.op = "task.get"
        /\ OwnsTask(last'.user, last'.id)
        /\ tasks[last'.id].status \in {"completed", "failed"}) =>
          /\ last'.calls = <<>>
          /\ last'.outcome = "ok"
          /\ last'.result = [id |-> last'.id, row |-> tasks[last'.id]]
          /\ tasks' = tasks
          /\ accounts' = accounts
      ]_vars

\* C3 witness: a get of a completed task has returned without a remote call.
C3_Witness ==
    /\ last.op = "task.get" /\ last.outcome = "ok"
    /\ last.calls = <<>>
    /\ tasks[last.id].status = "completed"
    /\ last.result = [id |-> last.id, row |-> tasks[last.id]]

\* A user message carrying prompt p, as the conversation stores it.
UserTurn(p) == [role |-> "user", content |-> <<[type |-> "text", text |-> p]>>]

\* The assistant-role messages of a remote output, in remote order, parsed.
AssistantTurns(output) ==
    IF ~output.present THEN <<>>
    ELSE parseManusOutput([present |-> TRUE,
                           items |-> SelectSeq(output.items,
                                               LAMBDA m : m.role = "assistant")])

\* A create has just succeeded.
CreateDone == last.op = "task.create" /\ last.outcome = "ok"

\* The history stored by the create that has just succeeded is the user
\* message carrying the prompt followed by the assistant messages of the output.
CreateHistoryOk ==
    tasks[last.result.id].conversationHistory
        = <<UserTurn(last.prompt)>> \o AssistantTurns(last.remote.resp.output)

\* C4 (as stated): after a successful create the stored history is the user
\* message carrying the prompt followed by the assistant-role messages of the
\* remote output, and the stored status is the status of the remote response.
C4_CreateStoresRemoteStatus ==
    CreateDone =>
        /\ CreateHistoryOk
        /\ tasks[last.result.id].status = last.remote.resp.status

\* C4 (amended): after a successful create the stored history is the user
\* message carrying the prompt followed by the assistant-role messages of the
\* remote output, and the stored status is the status of the remote response
\* when the response carries one and "unknown" when it carries none.
C4_CreateHistoryAndStatus ==
    CreateDone =>
        /\ CreateHistoryOk
        /\ last.remote.resp.status # ""
                => tasks[last.result.id].status = last.remote.resp.status
        /\ last.remote.resp.status = "" => tasks[last.result.id].status = "unknown"

\* C4 witness: a create answered without a status and with a system message
\* before the assistant's has stored "unknown" and two messages.
C4_Witness ==
    /\ CreateDone
    /\ last.remote.resp.status = ""
    /\ Len(last.remote.resp.output.items) = 2
    /\ last.remote.resp.output.items[1].role = "system"
    /\ tasks[last.result.id].status = "unknown"
    /\ Len(tasks[last.result.id].conversationHistory) = 2

\* C5: a successful continue with prompt p stores the history stored before
\* the call, followed by one user message carrying p, followed by the
\* assistant-role messages of the remote output in remote order.
C5_ContinueAppends ==
    [][(CallStep /\ last'.op = "task.continue" /\ last'.outcome = "ok") =>
          tasks'[last'.id].conversationHistory
              = tasks[last'.id].conversationHistory
                    \o <<UserTurn(last'.prompt)>>
                    \o AssistantTurns(last'.remote.resp.output)
      ]_vars

\* C5 witness: a continue whose output echoed the user has grown a history of
\* two messages to four, the first two being kept.
C5_Witness ==
    /\ last.op = "task.continue" /\ last.outcome = "ok"
    /\ Len(last.remote.resp.output.items) = 2
    /\ last.remote.resp.output.items[1].role = "user"
    /\ Len(tasks[last.id].conversationHistory) = 4
    /\ tasks[last.id].conversationHistory[3] = UserTurn(last.prompt)

\* A get has just synced with the remote: the fetch succeeded.
GetSynced(c) == c.op = "task.get" /\ c.calls # <<>> /\ c.remote.ok

\* C6: a get of a task whose status is pending, running or unknown and whose
\* remote fetch succeeds stores exactly the parsed remote output as the
\* history when the output is non-empty, and leaves the history as it was
\* when the output is empty or absent.
C6_GetReplacesHistory ==
    [][(CallStep /\ GetSynced(last')) =>
          LET out == last'.remote.resp.output
              nonEmpty == out.present /\ out.items # <<>>
          IN  /\ tasks[last'.id].status \in {"pending", "running", "unknown"}
              /\ nonEmpty =>
                    /\ Len(tasks'[last'.id].conversationHistory) = Len(out.items)
                    /\ \A i \in 1..Len(out.items) :
                          /\ tasks'[last'.id].conversationHistory[i].id = out.items[i].id
                          /\ tasks'[last'.id].conversationHistory[i].role = out.items[i].role
                    /\ tasks'[last'.id].conversationHistory = parseManusOutput(out)
              /\ ~nonEmpty =>
                    tasks'[last'.id].conversationHistory
                        = tasks[last'.id].conversationHistory
      ]_vars

\* C6 witness: a get has replaced the history by an output that starts with a
\* system message, so the user's prompt is no longer stored.
C6_Witness ==
    /\ GetSynced(last)
    /\ Len(tasks[last.id].conversationHistory) = 2
    /\ tasks[last.id].conversationHistory[1].role = "system"

\* The remote call of the completed call c failed in transport.
RemoteFailed(c) == c.calls # <<>> /\ ~c.remote.ok

\* C7: when the remote call of a task.get or task.poll fails, the call
\* succeeds: get returns the stored row, poll returns the stored status, and
\* the tasks table is left as it was.
C7_SyncFailureSwallowed ==
    [][(CallStep /\ last'.op \in {"task.get", "task.poll"} /\ RemoteFailed(last')) =>
          /\ last'.outcome = "ok"
          /\ tasks' = tasks
          /\ last'.op = "task.get" =>
                last'.result = [id |-> last'.id, row |-> tasks[last'.id]]
          /\ last'.op = "task.poll" =>
                /\ last'.result.id = last'.id
                /\ last'.result.status = tasks[last'.id].status
      ]_vars

\* C7 witness: a poll of a running task whose remote call failed has returned
\* "running".
C7_Witness ==
    /\ last.op = "task.poll" /\ RemoteFailed(last)
    /\ last.outcome = "ok"
    /\ last.result.status = "running"
    /\ tasks[last.id].status = "running"

\* Row r with its status column set to s.
WithStatus(r, s) == [f \in DOMAIN r |-> IF f = "status" THEN s ELSE r[f]]

\* C8: task.poll calls the remote only when the stored status is pending or
\* running; the only column it changes is status, and only to a remote status
\* that differs from the stored one; every other column of the row, every
\* other task row and every account row stay as they were.
C8_PollWritesOnlyStatus ==
    [][(CallStep /\ last'.op = "task.poll") =>
          LET c == last'
          IN  /\ accounts' = accounts
              /\ \A t \in TaskIds : t # c.id => tasks'[t] = tasks[t]
              /\ OwnsTask(c.user, c.id) =>
                    /\ c.calls # <<>> => tasks[c.id].status \in {"pending", "running"}
                    /\ tasks[c.id].status \in {"completed", "failed", "unknown"}
                          => c.calls = <<>>
                    /\ tasks'[c.id] # NoRow
                    /\ tasks'[c.id] = WithStatus(tasks[c.id], tasks'[c.id].status)
                    /\ tasks'[c.id].status # tasks[c.id].status =>
                          /\ c.calls # <<>> /\ c.remote.ok
                          /\ tasks'[c.id].status = c.remote.resp.status
      ]_vars

\* C8 witness: a poll has moved a task to completed, its history of two
\* messages and its credit of 10 being kept.
C8_Witness ==
    /\ last.op = "task.poll" /\ last.calls # <<>> /\ last.remote.ok
    /\ last.remote.resp.status = "completed"
    /\ tasks[last.id].status = "completed"
    /\ tasks[last.id].creditUsage = 10
    /\ Len(tasks[last.id].conversationHistory) = 2

\* C9: when the remote call of a task.create or task.continue fails, the
\* caller gets the error and nothing is stored: no task row is inserted and
\* every task row and account row stays as it was.
C9_TurnFailurePropagates ==
    [][(CallStep /\ last'.op \in {"task.create", "task.continue"} /\ RemoteFailed(last')) =>
          /\ last'.outcome = "REMOTE_ERROR"
          /\ last'.result = NoResult
          /\ tasks' = tasks
          /\ accounts' = accounts
          /\ nextTaskId' = nextTaskId
      ]_vars

\* C9 witness: a continue of an existing task with prompt "hi" has failed in
\* the remote call, and the stored history has still one message.
C9_Witness ==
    /\ last.op = "task.continue" /\ RemoteFailed(last)
    /\ last.outcome = "REMOTE_ERROR"
    /\ last.prompt = <<"h", "i">>
    /\ tasks[last.id] # NoRow
    /\ Len(tasks[last.id].conversationHistory) = 1

\* The handlers that name an account id, and those that name a task id.
AccountOps == {"account.delete", "account.setDefault", "account.test", "task.create"}

TaskOps == {"task.continue", "task.get", "task.poll", "task.delete"}

\* The completed call c passed input validation and named a row that is
\* missing or owned by another user.
NamesNoOwnRow(c) ==
    /\ c.op \in {"task.create", "task.continue"} => c.prompt # <<>>
    /\ \/ c.op \in AccountOps /\ ~OwnsAccount(c.user, c.id)
       \/ c.op \in TaskOps /\ ~OwnsTask(c.user, c.id)

DefaultsOf(tbl, u) ==
    {a \in AccountIds : tbl[a] # NoRow /\ tbl[a].userId = u /\ tbl[a].isDefault = 1}

\* Every user has at most one default account.
AtMostOneDefault == \A u \in Users : Cardinality(DefaultsOf(accounts, u)) <= 1

\* C11: every user has at most one account with isDefault = 1 at all times,
\* and a successful account.setDefault(a) by user u leaves a as the only
\* default account of u and the flags of the other users' accounts unchanged.
C11_SingleDefault ==
    /\ []AtMostOneDefault
    /\ [][(CallStep /\ last'.op = "account.setDefault" /\ last'.outcome = "ok") =>
             /\ DefaultsOf(accounts', last'.user) = {last'.id}
             /\ \A a \in AccountIds :
                   (accounts[a] # NoRow /\ accounts[a].userId # last'.user) =>
                       accounts'[a] = accounts[a]
         ]_vars

\* C11 witness: user 1 has made their second account the default, and their
\* first account is not the default.
C11_Witness ==
    /\ last.op = "account.setDefault" /\ last.outcome = "ok"
    /\ last.id = 2
    /\ accounts[1] # NoRow /\ accounts[1].userId = last.user
    /\ accounts[1].isDefault = 0
    /\ accounts[2].isDefault = 1

\* The fields an account row may show to a caller.
PublicAccountFields == {"id", "name", "apiBaseUrl", "isDefault"}

\* Row r shows exactly the public fields, with the values stored for its id.
IsPublicViewOfStored(r) ==
    /\ DOMAIN r = PublicAccountFields
    /\ r.id \in AccountIds
    /\ accounts[r.id] # NoRow
    /\ r.name = accounts[r.id].name
    /\ r.apiBaseUrl = accounts[r.id].apiBaseUrl
    /\ r.isDefault = accounts[r.id].isDefault

\* C12: the response of a successful account.create and every row of the
\* response of account.list carry exactly id, name, base URL and default
\* flag: neither the API key nor the encrypted blob is part of it.
C12_NoKeyInResponses ==
    /\ (last.op = "account.create" /\ last.outcome = "ok") =>
          IsPublicViewOfStored(last.result)
    /\ last.op = "account.list" =>
          /\ \A r \in last.result.rows : IsPublicViewOfStored(r) /\ accounts[r.id].userId = last.user
          /\ \A a \in AccountIds :
                (accounts[a] # NoRow /\ accounts[a].userId = last.user) =>
                    \E r \in last.result.rows : r.id = a

\* C12 witness: a list has returned the two accounts of a user, whose stored
\* rows hold an encrypted key.
C12_Witness ==
    /\ last.op = "account.list"
    /\ Cardinality(last.result.rows) = 2
    /\ \A r \in last.result.rows : Len(accounts[r.id].apiKeyEncrypted) > 2

\* C13: account.test on an account of the caller ends without an error and
\* changes neither table; it returns success when the remote listing
\* succeeds, and otherwise a failure with the invalid-key message for HTTP
\* 401, the insufficient-permission message for 403 and the connection-failed
\* message for every other failure.
C13_TestClassifiesFailures ==
    [][(CallStep /\ last'.op = "account.test" /\ OwnsAccount(last'.user, last'.id)) =>
          LET c == last'
              listed == c.calls # <<>> /\ c.remote.ok
              status == IF c.calls # <<>> THEN c.remote.http ELSE 0
          IN  /\ c.outcome = "ok"
              /\ accounts' = accounts
              /\ tasks' = tasks
              /\ c.result.success = listed
              /\ (~listed /\ status = 401) =>
                    c.result.message = "Invalid API Key. Please check and try again."
              /\ (~listed /\ status = 403) =>
                    c.result.message = "API Key does not have sufficient permissions."
              /\ (~listed /\ status \notin {401, 403}) =>
                    c.result.message = "Connection failed"
      ]_vars

\* C13 witness: a test answered with HTTP 403 has returned the
\* insufficient-permission message.
C13_Witness ==
    /\ last.op = "account.test" /\ last.calls # <<>>
    /\ last.remote.http = 403
    /\ last.result.success = FALSE
    /\ last.result.message = "API Key does not have sufficient permissions."

\* The stored key of account a does not decrypt under the configured secret.
KeyUnreadable(a) ==
    /\ a \in AccountIds
    /\ accounts[a] # NoRow
    /\ ~decrypt(accounts[a].apiKeyEncrypted).ok

\* The account whose key the call c needs, 0 when c needs no key: c passed
\* validation, names rows of its caller and, for get and poll, the stored
\* status calls for a remote fetch.
AccountNeeded(c) ==
    IF c.op \in {"task.create", "account.test"}
    THEN IF (c.op = "task.create" => c.prompt # <<>>) /\ OwnsAccount(c.user, c.id)
         THEN c.id ELSE 0
    ELSE IF c.op \in {"task.continue", "task.get", "task.poll"} /\ OwnsTask(c.user, c.id)
    THEN IF /\ OwnsAccount(c.user, tasks[c.id].accountId)
            /\ c.op = "task.continue" => c.prompt # <<>>
            /\ c.op = "task.get" => tasks[c.id].status \in {"pending", "running", "unknown"}
            /\ c.op = "task.poll" => tasks[c.id].status \in {"pending", "running"}
         THEN tasks[c.id].accountId ELSE 0
    ELSE 0

\* C14: when the stored key of the account does not decrypt during a
\* task.create, task.continue, task.get, task.poll or account.test that needs
\* it, the call ends in an error and not in a normal result.
C14_DecryptFailureSurfaces ==
    [][(CallStep /\ KeyUnreadable(AccountNeeded(last'))) => last'.outcome # "ok"]_vars

\* Code unit i of string s is a surrogate without its partner.
LoneSurrogate(s, i) ==
    \/ s[i] = "hi" /\ (i = Len(s) \/ s[i + 1] # "lo")
    \/ s[i] = "lo" /\ (i = 1 \/ s[i - 1] # "hi")

\* String s is well-formed UTF-16: it has no unpaired surrogate.
WellFormed(s) == \A i \in 1..Len(s) : ~LoneSurrogate(s, i)

\* String s with every unpaired surrogate replaced by U+FFFD.
Scrubbed(s) == [i \in 1..Len(s) |-> IF LoneSurrogate(s, i) THEN "fffd" ELSE s[i]]

\* The vault has decrypted, under the secret they were made with, blobs that
\* nobody changed.
RoundTripDone ==
    /\ vault.op = "decrypt"
    /\ vault.tampered = 0
    /\ vault.sealedUnder = vault.openedUnder

\* C15 (as stated): for every string s and every nonce, decrypt(encrypt(s))
\* is s under an unchanged secret.
C15_RoundTripEveryString ==
    RoundTripDone =>
        \A k \in 1..Len(vault.outs) : vault.outs[k].ok /\ vault.outs[k].value = vault.plain

\* C15 (amended): under an unchanged secret and for every nonce,
\* decrypt(encrypt(s)) succeeds and returns s with every unpaired surrogate
\* replaced by U+FFFD; so it is s for every well-formed string, the empty and
\* the non-ASCII ones included, and differs from s for every other string.
C15_RoundTripWellFormed ==
    RoundTripDone =>
        \A k \in 1..Len(vault.outs) :
            /\ vault.outs[k].ok
            /\ vault.outs[k].value = Scrubbed(vault.plain)
            /\ WellFormed(vault.plain) <=> vault.outs[k].value = vault.plain

\* C15 witness: an astral character (a surrogate pair), encrypted under
\* nonce 1, has come back unchanged.
C15_Witness ==
    /\ RoundTripDone
    /\ vault.plain = <<"hi", "lo">>
    /\ vault.ivs = <<1>>
    /\ vault.outs[1].ok
    /\ vault.outs[1].value = <<"hi", "lo">>

\* The vault has decrypted, under the secret it was made with, a blob of
\* which one symbol of the tag or ciphertext segment was changed.
TamperedOpened ==
    /\ vault.op = "decrypt"
    /\ vault.tampered > IV_LENGTH
    /\ vault.sealedUnder = vault.openedUnder

\* C16: for every plaintext s and blob b = encrypt(s), decrypt fails on b
\* with one symbol of its tag segment or of its ciphertext segment changed;
\* it returns no plaintext for such a blob, so never one that differs from s.
C16_TamperDetected ==
    TamperedOpened =>
        LET out == vault.outs[Len(vault.outs)]
        IN  ~out.ok /\ out.value = <<>>

\* C16 witness: a blob whose fifth and last ciphertext symbol was changed
\* has been rejected.
C16_Witness ==
    /\ TamperedOpened
    /\ vault.plain = <<"e9", "hi">>
    /\ vault.tampered = IV_LENGTH + TAG_LENGTH + 5
    /\ ~vault.outs[1].ok

\* The vault has encrypted one plaintext twice and decrypted both blobs under
\* the secret they were made with.
TwiceSealedOpened ==
    /\ RoundTripDone
    /\ Len(vault.blobs) = 2

Malformed(c) ==
    \/ /\ c.op = "account.create"
       /\ \/ c.name = ""
          \/ c.apiKey = <<>>
          \/ c.apiBaseUrl \in {"not-a-url"}
    \/ c.op \in {"task.create", "task.continue"} /\ c.prompt = <<>>

\* C18: a call with malformed input is rejected and has no effect: no
\* account or task row is inserted or changed, no id is used up and no remote
\* call is made.
C18_MalformedRejected ==
    [][(CallStep /\ Malformed(last')) =>
          /\ last'.outcome = "BAD_REQUEST"
          /\ last'.result = NoResult
          /\ last'.calls = <<>>
          /\ accounts' = accounts
          /\ tasks' = tasks
          /\ nextAccountId' = nextAccountId
          /\ nextTaskId' = nextTaskId
      ]_vars

\* C18 witness: an account.create with a name, a key and an apiBaseUrl that
\* is not a URL has been rejected.
C18_Witness ==
    /\ last.op = "account.create" /\ last.outcome = "BAD_REQUEST"
    /\ last.name = "A"
    /\ last.apiKey # <<>>
    /\ last.apiBaseUrl = "not-a-url"

\* Both callers have returned success from a task.continue on the same task,
\* and both had read the task row before either wrote it.
Overlapped ==
    /\ \A c \in Callers : inflight[c].pc = "done" /\ inflight[c].outcome = "ok"
    /\ inflight[1].id = inflight[2].id
    /\ inflight[1].task = inflight[2].task

\* The row a continue with prompt p answered by r makes of the row it read.
ExpectedAfterContinue(row, p, r) ==
    [row EXCEPT
        !.status = IF r.status # "" THEN r.status ELSE row.status,
        !.taskUrl = IF r.metadata.task_url # "" THEN r.metadata.task_url ELSE row.taskUrl,
        !.creditUsage = row.creditUsage + ReportedOr(r.credit_usage, 0),
        !.conversationHistory =
            row.conversationHistory \o <<UserTurn(p)>> \o AssistantTurns(r.output)]

\* C19: when two task.continue calls on the same task overlap, both reading
\* the row before either writes it, the stored row is in the end exactly what
\* the later writer made of the row it had read: the prompt, the assistant
\* messages and the credit of the earlier writer are not in it, although its
\* call returned success.
C19_LaterWriteWins ==
    Overlapped =>
        \A c \in Callers :
            inflight[c].wrote = 2 =>
                tasks[inflight[c].id]
                    = ExpectedAfterContinue(inflight[c].task, inflight[c].prompt,
                                            inflight[c].resp)

\* C19 witness: the earlier writer sent "yo" and was charged 10, the later
\* one sent "hi" and was charged 5; the stored history holds "hi" and no
\* "yo", and the stored credit is that of the row read plus 5.
C19_Witness ==
    /\ Overlapped
    /\ inflight[1].wrote = 1 /\ inflight[2].wrote = 2
    /\ inflight[1].prompt = <<"y", "o">> /\ inflight[2].prompt = <<"h", "i">>
    /\ inflight[1].resp.credit_usage = <<"1", "0">>
    /\ inflight[2].resp.credit_usage = <<"5">>
    /\ tasks[1].creditUsage = inflight[2].task.creditUsage + 5
    /\ \A i \in 1..Len(tasks[1].conversationHistory) :
          tasks[1].conversationHistory[i] # UserTurn(<<"y", "o">>)
    /\ inflight[1].result.conversationHistory[Len(inflight[1].task.conversationHistory) + 1]
          = UserTurn(<<"y", "o">>)

\* C20: a successful account.delete removes the named account row and
\* nothing else: every other account row and every task row, the tasks of
\* the deleted account included, stay as they were.
C20_DeleteRemovesOneRow ==
    [][(CallStep /\ last'.op = "account.delete" /\ last'.outcome = "ok") =>
          /\ accounts[last'.id] # NoRow
          /\ accounts[last'.id].userId = last'.user
          /\ accounts'[last'.id] = NoRow
          /\ \A a \in AccountIds \ {last'.id} : accounts'[a] = accounts[a]
          /\ tasks' = tasks
      ]_vars

\* C20 witness: an account has been deleted, another account of the same
\* user is still stored, and so is a task of the deleted account.
C20_Witness ==
    /\ last.op = "account.delete" /\ last.outcome = "ok"
    /\ accounts[last.id] = NoRow
    /\ \E a \in AccountIds : accounts[a] # NoRow /\ accounts[a].userId = last.user
    /\ \E t \in TaskIds : tasks[t] # NoRow /\ tasks[t].accountId = last.id

\* C21: the stored creditUsage of a task never decreases from one state to
\* the next (the remote reports only the non-negative usages 5 and 10).
C21_CreditNeverDecreases ==
    [][\A t \in TaskIds :
          (tasks[t] # NoRow /\ tasks'[t] # NoRow) =>
              tasks'[t].creditUsage >= tasks[t].creditUsage
      ]_vars

\* The status values of the tasks.status column.
StatusValues == {"pending", "running", "completed", "failed", "unknown"}

C23_RolesUserOrAssistant ==
    \A t \in TaskIds :
        tasks[t] # NoRow =>
            \A i \in 1..Len(tasks[t].conversationHistory) :
                tasks[t].conversationHistory[i].role \in {"user", "assistant"}

\* The completed call c is a task.get or a task.continue, past validation, on
\* a task of its caller whose account row is gone and, for get, whose stored
\* status is pending, running or unknown.
OnOrphanedTask(c) ==
    /\ c.op \in {"task.get", "task.continue"}
    /\ OwnsTask(c.user, c.id)
    /\ ~OwnsAccount(c.user, tasks[c.id].accountId)
    /\ c.op = "task.get" => tasks[c.id].status \in {"pending", "running", "unknown"}
    /\ c.op = "task.continue" => c.prompt # <<>>

\* C26: task.get on an orphaned task whose status is pending, running or
\* unknown ends in NOT_FOUND, as task.continue does; the tasks table is
\* unchanged and no remote call is made.
C26_OrphanGetNotFound ==
    [][(CallStep /\ OnOrphanedTask(last')) =>
          /\ last'.outcome = "NOT_FOUND"
          /\ last'.calls = <<>>
          /\ tasks' = tasks
      ]_vars

\* C25: with two account.setDefault calls interleaved at their updates, no
\* reachable state has two accounts of one user with isDefault = 1.
C25_SingleDefaultInterleaved ==
    \A u \in Users :
        \A a, b \in DefaultsOf(accounts, u) : a = b

\* C24: with no database connection (connection string unset, or drizzle
\* failing to initialise), every repository helper ends by throwing, and
\* none of them writes a row or hands back data.
C24_NoDatabaseEveryHelperThrows ==
    [][~last'.available =>
          /\ last'.outcome = "threw"
          /\ last'.rows = {}
          /\ accounts' = accounts
          /\ tasks' = tasks
          /\ database'.users = database.users]_vars

====
